---------------------------- MODULE Spec2Model ----------------------------
(***************************************************************************)
(* Model of the Feeds Kodi plugin's playback-lifecycle controller:         *)
(*   - play_video (main.py): quality negotiation, the bounded preparation  *)
(*     wait, segment fetch and playback start;                             *)
(*   - FeedsPlayer (resources/lib/player.py): the playback monitor, its    *)
(*     host callbacks and its sampling loop;                               *)
(*   - FeedsAPI (resources/lib/feeds_api.py): the calls both make.         *)
(*                                                                         *)
(* Two specifications share the variables.  Spec runs one play attempt    *)
(* from the call of play_video to its return (the FeedsPlayer is built by  *)
(* its last step).  SpecMon runs one FeedsPlayer from the state its        *)
(* constructor leaves to the exit of its sampling loop.                    *)
(*                                                                         *)
(* Positions and segment bounds are floats in the code.  Here they are     *)
(* integers counting 1/SubUnits of a position unit, and int() is the       *)
(* truncating division by SubUnits.                                        *)
(***************************************************************************)
EXTENDS Integers, Sequences, FiniteSets, TLC

VARIABLES
    \* ---- play_video: locals and settings
    pc,                 \* position in play_video
    default_quality,    \* settings["default_quality"]
    sponsorblock_setting, \* settings["sponsorblock_enabled"]
    available,          \* qualities_data["available"] or []
    cached,             \* qualities_data["cached"] or []
    selected_quality,   \* None is ""
    i,                  \* index of the poll-loop iteration about to run
    pDialog,            \* the progress dialog: "none", "open", "closed"
    progress,           \* last percentage given to pDialog.update
    stream_url,         \* locator handed to setResolvedUrl; NoUrl before
    \* ---- play_video: what the attempt did (observed effects)
    outcome,            \* "running", "failed", "crashed", "noqual", "cancelled", "playing"
    n_get_video_qualities, \* calls of api.get_video_qualities
    n_start_download,   \* calls of api.start_download
    download_quality,   \* quality of the last start_download call
    n_get_segments,     \* calls of api.get_segments
    errorNotices,       \* Dialog().ok("Feeds", "Error: ...") shown by the handler
    noQualNotices,      \* Dialog().ok("Feeds", "No qualities available ...")
    configNotices,      \* Dialog().ok("Feeds", "Please configure ...")
    options,            \* the options list offered by Dialog().select
    lastPollHit,        \* the last rendition poll showed selected_quality cached
    exhausted,          \* the poll loop ran out of iterations without a break
    userCancelled,      \* a dialog reported that the user cancelled or declined
    failedCall,         \* the API call of play_video that raised, "none" if none
    \* ---- FeedsPlayer: fields
    segments,
    sponsorblock_enabled,
    last_progress_report,
    duration,
    playing,
    \* ---- FeedsPlayer: the sampling loop
    mpc,                \* position of the monitor: "none", "idle", "while", ...
    position,           \* local of _start_monitor: the sampled position
    \* ---- the host player
    hostState,          \* "none", "starting", "playing", "paused", "stopped", "ended"
    hostPos,            \* what getTime() returns
    abortRequested,     \* xbmc.Monitor().abortRequested()
    \* ---- FeedsPlayer: observed effects
    out,                \* the calls made by the last step, in order, each
                        \* with the method that made it
    loopReportAt,       \* sampled whole position of the loop's last report, -1 if none
    prevLoopReportAt,   \* the same for the report before it
    loopReportPos,      \* the position the loop's last report carried, -1 if none
    monotone            \* no backward move of the position and no pause so far

pvars == <<pc, default_quality, sponsorblock_setting, available, cached,
           selected_quality, i, pDialog, progress, stream_url, outcome,
           n_get_video_qualities, n_start_download, download_quality,
           n_get_segments, errorNotices, noQualNotices, configNotices,
           options, lastPollHit, exhausted, userCancelled, failedCall>>

fvars == <<segments, sponsorblock_enabled, last_progress_report, duration, playing>>

mvars == <<mpc, position, hostState, hostPos, abortRequested, out,
           loopReportAt, prevLoopReportAt, loopReportPos, monotone>>

vars == <<pvars, fvars, mvars>>

---------------------------------------------------------------------------
(* Bounds of the model *)

\* longest rendition list a server response carries
MaxLen == 2
\* resolution of a position: sub-units per whole position unit
SubUnits == 2
\* host positions are the multiples of PosStep sub-units ...
PosStep == 15
\* ... from 0 to MaxSteps * PosStep
MaxSteps == 10
\* longest segment list
MaxSegs == 2

---------------------------------------------------------------------------
(* Program constants *)

\* for i in range(120)
MaxTicks == 120
\* report_interval = 30
report_interval == 30
\* default_quality of "Ask each time"
QUALITY_ASK == 0
\* default_quality of "Best"
QUALITY_BEST == 9999

VideoId == "v1"
None == ""
NoUrl == [video_id |-> None, quality |-> None]

Renditions == {"480p", "720p", "1080p"}

\* the rendition lists a response may carry: no label twice, at most MaxLen
Lists ==
    UNION { { s \in [1..n -> Renditions] :
                \A a, b \in 1..n : a /= b => s[a] /= s[b] } : n \in 0..MaxLen }

---------------------------------------------------------------------------
(* Python helpers *)

\* x in s
In(x, s) == \E k \in DOMAIN s : s[k] = x

\* s[-1]
Last(s) == s[Len(s)]

---------------------------------------------------------------------------
(* main.py *)

\* quality_map.get(quality_index, 0)
quality_map(quality_index) ==
    CASE quality_index = 0 -> 0
      [] quality_index = 1 -> 720
      [] quality_index = 2 -> 1080
      [] quality_index = 3 -> 9999
      [] OTHER -> 0

\* a label built without its suffix
TargetLabel_nosuffix(n) == ToString(n)

\* str(default_quality) + "p"
TargetLabel(n) == ToString(n) \o "p"

\* the two lists taken in the other order
BestRule_cachedfirst(av, ca) == IF ca /= <<>> THEN Last(ca) ELSE Last(av)

\* available[-1] if available else cached[-1]
BestRule(av, ca) == IF av /= <<>> THEN Last(av) ELSE Last(ca)

\* the elif/else branches that determine selected_quality without asking
SelectQuality(dq, av, ca) ==
    IF dq = QUALITY_BEST
    THEN BestRule(av, ca)
    ELSE LET target == TargetLabel(dq)
         IN  IF In(target, av) THEN target
             ELSE IF In(target, ca) THEN target
             ELSE BestRule(av, ca)

\* options and quality_values of the Ask branch, one record per entry
AskOptions(av, ca) ==
    [k \in DOMAIN av |->
        [label |-> IF In(av[k], ca) THEN av[k] \o " (cached)" ELSE av[k],
         value |-> av[k]]]

\* a test that asks for the download even of a cached rendition
NeedsDownload_always(q, ca) == q /= None

\* if selected_quality not in cached
NeedsDownload(q, ca) == ~In(q, ca)

\* int(i * 100 / 120)
Percent(k) == (k * 100) \div MaxTicks

\* FeedsAPI.get_stream_url
get_stream_url(video_id, quality) ==
    IF quality /= None
    THEN [video_id |-> video_id, quality |-> quality]
    ELSE [video_id |-> video_id, quality |-> None]

---------------------------------------------------------------------------
(* Sponsor segments *)

\* the positions, in sub-units, at which the modelled segments start and end
SegPoints ==
    {2 * PosStep, 4 * PosStep, (MaxSteps - 2) * PosStep,
     (MaxSteps - 1) * PosStep, MaxSteps * PosStep}

\* the modelled segments: two adjacent ones, and one that lies inside the
\* second
SegCandidates ==
    { [start_time |-> a, end_time |-> b] : <<a, b>> \in
        { pr \in SegPoints \X SegPoints :
            \/ pr = <<2 * PosStep, 4 * PosStep>>
            \/ pr = <<4 * PosStep, MaxSteps * PosStep>>
            \/ pr = <<(MaxSteps - 2) * PosStep, (MaxSteps - 1) * PosStep>> } }

\* the segment lists the server may return: no segment twice, at most MaxSegs
SegmentLists ==
    UNION { { s \in [1..n -> SegCandidates] :
                \A a, b \in 1..n : a /= b => s[a] /= s[b] } : n \in 0..MaxSegs }

\* how one HTTP exchange of _request can go: a JSON body comes back, urlopen
\* raises HTTPError (non-2xx), urlopen raises URLError (no connection), or
\* the body that comes back is not JSON
RequestResults == {"ok", "http_error", "url_error", "bad_json"}

\* FeedsAPI._request: "returns", or the exception it leaves with.  The two
\* except clauses turn HTTPError and URLError into FeedsAPIError; json.loads
\* raises JSONDecodeError inside the try, and no clause matches it
_request(result) ==
    CASE result = "ok" -> "returns"
      [] result = "http_error" -> "FeedsAPIError"
      [] result = "url_error" -> "FeedsAPIError"
      [] result = "bad_json" -> "JSONDecodeError"

\* what the segments request yields: one of the failures of the exchange, a
\* JSON array, or a JSON object with or without a "segments" key
SegmentResponses ==
    {[kind |-> k, body |-> <<>>] : k \in RequestResults \ {"ok"}}
    \cup {[kind |-> "object", body |-> <<>>]}
    \cup {[kind |-> "array", body |-> s] : s \in SegmentLists}
    \cup {[kind |-> "object_segments", body |-> s] : s \in SegmentLists}

\* the outcome of the exchange behind a segments response
ResultOf(resp) == IF resp.kind \in RequestResults THEN resp.kind ELSE "ok"

\* FeedsAPI.get_segments: the exception it leaves with, "none" when it
\* returns (except FeedsAPIError: return [])
get_segments_raises(resp) ==
    IF _request(ResultOf(resp)) \in {"returns", "FeedsAPIError"}
    THEN "none"
    ELSE _request(ResultOf(resp))

\* FeedsAPI.get_segments: the list it returns
get_segments(resp) ==
    IF _request(ResultOf(resp)) = "FeedsAPIError" THEN <<>>
    ELSE IF resp.kind = "array" THEN resp.body
    ELSE IF resp.kind = "object_segments" THEN resp.body
    ELSE <<>>

---------------------------------------------------------------------------
(* FeedsPlayer.__init__ *)

FeedsPlayer_init(segs, enabled) ==
    /\ segments' = segs
    /\ sponsorblock_enabled' = enabled
    /\ last_progress_report' = 0
    /\ duration' = 0
    /\ playing' = FALSE
    /\ mpc' = "idle"
    /\ hostState' = "starting"

---------------------------------------------------------------------------
(* play_video, step by step *)

\* except FeedsAPIError as e: xbmcgui.Dialog().ok("Feeds", f"Error: {e}")
Handler ==
    /\ errorNotices' = errorNotices + 1
    /\ outcome' = "failed"
    /\ pc' = "done"

\* an exception that is no FeedsAPIError leaves play_video: nothing is shown
Uncaught ==
    /\ outcome' = "crashed"
    /\ pc' = "done"
    /\ UNCHANGED errorNotices

\* an API call of play_video raises: the handler runs if its clause matches
Raise(exc, call) ==
    /\ failedCall' = call
    /\ IF exc = "FeedsAPIError" THEN Handler ELSE Uncaught

\* get_api(): the server URL is configured, or is asked for once
get_api ==
    /\ pc = "api"
    /\ \E configured \in BOOLEAN, configured_after \in BOOLEAN :
         IF configured
         THEN /\ pc' = "qualities"
              /\ UNCHANGED <<configNotices, errorNotices, outcome>>
         ELSE /\ configNotices' = configNotices + 1
              /\ IF configured_after
                 THEN pc' = "qualities" /\ UNCHANGED <<errorNotices, outcome>>
                 ELSE Handler
    /\ UNCHANGED <<default_quality, sponsorblock_setting, available, cached,
                   selected_quality, i, pDialog, progress, stream_url,
                   n_get_video_qualities, n_start_download, download_quality,
                   n_get_segments, noQualNotices, options, lastPollHit, exhausted,
                   userCancelled, failedCall>>
    /\ UNCHANGED <<fvars, mvars>>

\* a test that looks at one list only
NoQualities_availableonly(av, ca) == av = <<>>

\* if not available and not cached
NoQualities(av, ca) == av = <<>> /\ ca = <<>>

\* the first qualities request and the negotiation that needs no dialog
play_video_qualities ==
    /\ pc = "qualities"
    /\ n_get_video_qualities' = n_get_video_qualities + 1
    /\ \E res \in RequestResults, av \in Lists, ca \in Lists :
         IF _request(res) /= "returns"
         THEN /\ Raise(_request(res), "get_video_qualities")
              /\ UNCHANGED <<available, cached, selected_quality, options,
                             noQualNotices>>
         ELSE /\ available' = av
              /\ cached' = ca
              /\ UNCHANGED <<errorNotices, failedCall>>
              /\ IF NoQualities(av, ca)
                 THEN /\ noQualNotices' = noQualNotices + 1
                      /\ outcome' = "noqual"
                      /\ pc' = "done"
                      /\ UNCHANGED <<selected_quality, options>>
                 ELSE IF default_quality = QUALITY_ASK
                 THEN /\ options' = AskOptions(av, ca)
                      /\ pc' = "select"
                      /\ UNCHANGED <<selected_quality, noQualNotices, outcome>>
                 ELSE /\ selected_quality' = SelectQuality(default_quality, av, ca)
                      /\ pc' = "prepare"
                      /\ UNCHANGED <<options, noQualNotices, outcome>>
    /\ UNCHANGED <<default_quality, sponsorblock_setting, i, pDialog, progress,
                   stream_url, n_start_download, download_quality,
                   n_get_segments, configNotices, lastPollHit, exhausted,
                   userCancelled>>
    /\ UNCHANGED <<fvars, mvars>>

\* if choice < 0: return
SelectDeclined ==
    /\ outcome' = "cancelled"
    /\ pc' = "done"
    /\ UNCHANGED selected_quality

\* choice = Dialog().select(...); -1 when the user declines
play_video_select ==
    /\ pc = "select"
    /\ \E choice \in -1..(Len(options) - 1) :
         /\ userCancelled' = (choice < 0)
         /\ IF choice < 0
            THEN SelectDeclined
            ELSE /\ selected_quality' = options[choice + 1].value
                 /\ pc' = "prepare"
                 /\ UNCHANGED outcome
    /\ UNCHANGED <<default_quality, sponsorblock_setting, available, cached, i,
                   pDialog, progress, stream_url, n_get_video_qualities,
                   n_start_download, download_quality, n_get_segments,
                   errorNotices, noQualNotices, configNotices, options,
                   lastPollHit, exhausted, failedCall>>
    /\ UNCHANGED <<fvars, mvars>>

\* if selected_quality not in cached: open the dialog, request the download
play_video_prepare ==
    /\ pc = "prepare"
    /\ IF NeedsDownload(selected_quality, cached)
       THEN /\ pDialog' = "open"
            /\ n_start_download' = n_start_download + 1
            /\ download_quality' = selected_quality
            /\ \E res \in RequestResults :
                 IF _request(res) = "returns"
                 THEN pc' = "poll" /\ UNCHANGED <<errorNotices, outcome, failedCall>>
                 ELSE Raise(_request(res), "start_download")
       ELSE /\ pc' = "segments"
            /\ UNCHANGED <<pDialog, n_start_download, download_quality,
                           errorNotices, outcome, failedCall>>
    /\ UNCHANGED <<default_quality, sponsorblock_setting, available, cached,
                   selected_quality, i, progress, stream_url,
                   n_get_video_qualities, n_get_segments, noQualNotices,
                   configNotices, options, lastPollHit, exhausted, userCancelled>>
    /\ UNCHANGED <<fvars, mvars>>

\* selected_quality in new_qualities.get("cached", [])
PollHit(q, new_cached) == In(q, new_cached)

\* a loop bound that is off by one
RangeDone_offbyone(k) == k > MaxTicks

\* range(120) has no further index after k iterations
RangeDone(k) == k >= MaxTicks

\* a cancel that leaves the loop instead of the function
WaitCancelled_break ==
    /\ pc' = "segments"
    /\ pDialog' = "closed"
    /\ UNCHANGED <<outcome, i, progress, n_get_video_qualities,
                   errorNotices, lastPollHit, exhausted, failedCall>>

\* if pDialog.iscanceled(): return
WaitCancelled ==
    /\ outcome' = "cancelled"
    /\ pc' = "done"
    /\ UNCHANGED <<i, pDialog, progress, n_get_video_qualities,
                   errorNotices, lastPollHit, exhausted, failedCall>>

\* one iteration of the poll loop, and pDialog.close() when it is the last
play_video_poll ==
    /\ pc = "poll"
    /\ \E canceled \in BOOLEAN :
         /\ userCancelled' = canceled
         /\ IF canceled
            THEN WaitCancelled
            ELSE
              /\ progress' = Percent(i)
              /\ n_get_video_qualities' = n_get_video_qualities + 1
              /\ \E res \in RequestResults, new_cached \in Lists :
                   IF _request(res) /= "returns"
                   THEN /\ Raise(_request(res), "get_video_qualities")
                        /\ UNCHANGED <<i, pDialog, lastPollHit, exhausted>>
                   ELSE /\ lastPollHit' = In(selected_quality, new_cached)
                        /\ UNCHANGED <<errorNotices, outcome, failedCall>>
                        /\ IF PollHit(selected_quality, new_cached)
                           THEN /\ pDialog' = "closed"
                                /\ pc' = "segments"
                                /\ UNCHANGED <<i, exhausted>>
                           ELSE /\ i' = i + 1
                                /\ IF RangeDone(i + 1)
                                   THEN /\ exhausted' = TRUE
                                        /\ pDialog' = "closed"
                                        /\ pc' = "segments"
                                   ELSE /\ pc' = "poll"
                                        /\ UNCHANGED <<exhausted, pDialog>>
    /\ UNCHANGED <<default_quality, sponsorblock_setting, available, cached,
                   selected_quality, stream_url, n_start_download,
                   download_quality, n_get_segments, noQualNotices,
                   configNotices, options>>
    /\ UNCHANGED <<fvars, mvars>>

\* the quality argument play_video gives get_stream_url: none
StreamQuality(q) == None

\* fetch the segments if enabled, resolve the locator, build the FeedsPlayer
\* stream_url = api.get_stream_url(video_id); setResolvedUrl; FeedsPlayer(...)
StartPlayback(segs) ==
    /\ stream_url' = get_stream_url(VideoId, StreamQuality(selected_quality))
    /\ outcome' = "playing"
    /\ pc' = "done"
    /\ FeedsPlayer_init(segs, sponsorblock_setting)
    /\ UNCHANGED <<errorNotices, failedCall>>

play_video_start ==
    /\ pc = "segments"
    /\ IF sponsorblock_setting
       THEN /\ n_get_segments' = n_get_segments + 1
            /\ \E resp \in SegmentResponses :
                 IF get_segments_raises(resp) = "none"
                 THEN StartPlayback(get_segments(resp))
                 ELSE /\ Raise(get_segments_raises(resp), "get_segments")
                      /\ UNCHANGED <<stream_url, fvars, mpc, hostState>>
       ELSE /\ UNCHANGED n_get_segments
            /\ StartPlayback(<<>>)
    /\ UNCHANGED <<default_quality, sponsorblock_setting, available, cached,
                   selected_quality, i, pDialog, progress,
                   n_get_video_qualities, n_start_download, download_quality,
                   noQualNotices, configNotices, options,
                   lastPollHit, exhausted, userCancelled>>
    /\ UNCHANGED <<position, hostPos, abortRequested, out, loopReportAt,
                   prevLoopReportAt, loopReportPos, monotone>>

\* the state in which play_video is called: settings read, nothing done
PlayInit ==
    /\ pc = "api"
    /\ \E quality_index \in 0..4 : default_quality = quality_map(quality_index)
    /\ sponsorblock_setting \in BOOLEAN
    /\ available = <<>>
    /\ cached = <<>>
    /\ selected_quality = None
    /\ i = 0
    /\ pDialog = "none"
    /\ progress = 0
    /\ stream_url = NoUrl
    /\ outcome = "running"
    /\ n_get_video_qualities = 0
    /\ n_start_download = 0
    /\ download_quality = None
    /\ n_get_segments = 0
    /\ errorNotices = 0
    /\ noQualNotices = 0
    /\ configNotices = 0
    /\ options = <<>>
    /\ lastPollHit = FALSE
    /\ exhausted = FALSE
    /\ userCancelled = FALSE
    /\ failedCall = "none"

\* no FeedsPlayer exists yet
NoPlayer ==
    /\ segments = <<>>
    /\ sponsorblock_enabled = FALSE
    /\ last_progress_report = 0
    /\ duration = 0
    /\ playing = FALSE
    /\ mpc = "none"
    /\ position = 0
    /\ hostState = "none"
    /\ hostPos = 0
    /\ abortRequested = FALSE
    /\ out = <<>>
    /\ loopReportAt = -1
    /\ prevLoopReportAt = -1
    /\ loopReportPos = -1
    /\ monotone = TRUE

Init == PlayInit /\ NoPlayer

Next ==
    \/ get_api
    \/ play_video_qualities
    \/ play_video_select
    \/ play_video_prepare
    \/ play_video_poll
    \/ play_video_start

Spec == Init /\ [][Next]_vars

---------------------------------------------------------------------------
(* The host player, as FeedsPlayer sees it *)

\* the positions getTime() may return, in sub-units
Positions == {k * PosStep : k \in 0..MaxSteps}

\* what getTotalTime() may return, in sub-units
TotalTimes == {50 * SubUnits}

\* int(x) of a non-negative float
int(x) == x \div SubUnits

\* getTime() and seekTime() raise RuntimeError when nothing is playing; after
\* a stop or the end of the stream either outcome is possible
HostCallOk == IF hostState \in {"playing", "paused"} THEN {TRUE} ELSE {TRUE, FALSE}

\* a remote call returns, or raises (any outcome of _request but "returns")
ApiOk == {TRUE, FALSE}

---------------------------------------------------------------------------
(* player.py *)

\* seg.get("start_time", 0), seg.get("end_time", 0)
SegGet(seg, key) == IF key \in DOMAIN seg THEN seg[key] ELSE 0

\* an interval closed at its end
InSegment_closed(pos, seg) ==
    SegGet(seg, "start_time") <= pos /\ pos <= SegGet(seg, "end_time")

\* if start <= position < end
InSegment(pos, seg) ==
    SegGet(seg, "start_time") <= pos /\ pos < SegGet(seg, "end_time")

\* the for loop over self.segments: index of the segment it breaks at, 0 if none
FirstMatch(pos, segs) ==
    IF \E k \in DOMAIN segs : InSegment(pos, segs[k])
    THEN CHOOSE k \in DOMAIN segs :
            /\ InSegment(pos, segs[k])
            /\ \A j \in 1..(k - 1) : ~InSegment(pos, segs[j])
    ELSE 0

\* if self.sponsorblock_enabled and self.segments
SkipActive(enabled, segs) == enabled /\ segs /= <<>>

\* a throttle that lets every tick report
ReportDue_everytick(current_time, last) == current_time - last >= 0

\* if current_time - self.last_progress_report >= report_interval
ReportDue(current_time, last) == current_time - last >= report_interval

\* a threshold that is met at exactly 90%
WatchedDue_atleast(dur, pos) == dur > 0 /\ 10 * pos >= 9 * dur * SubUnits

\* if self.duration > 0 and position > self.duration * 0.9
WatchedDue(dur, pos) == dur > 0 /\ 10 * pos > 9 * dur * SubUnits

\* the guard of _report_progress: if self.duration > 0
ReportGuard(dur) == dur > 0

\* an end-of-stream guard that looks at the position
EndedGuard_nearend(dur) == WatchedDue(dur, hostPos)

\* the guard of onPlayBackEnded: if self.duration > 0
EndedGuard(dur) == dur > 0

\* a report that carries the last-reported marker, not the position
_report_progress_marker(by, time_ok, api_ok) ==
    IF ~time_ok THEN <<>>
    ELSE IF ReportGuard(duration)
         THEN <<[op |-> "report_progress", by |-> by,
                 progress |-> last_progress_report,
                 duration |-> duration, ok |-> api_ok]>>
         ELSE <<>>

\* FeedsPlayer._report_progress: the calls it makes
_report_progress(by, time_ok, api_ok) ==
    IF ~time_ok THEN <<>>
    ELSE IF ReportGuard(duration)
         THEN <<[op |-> "report_progress", by |-> by, progress |-> int(hostPos),
                 duration |-> duration, ok |-> api_ok]>>
         ELSE <<>>

\* FeedsPlayer.onAVStarted, up to the entry of the loop
onAVStarted ==
    /\ mpc = "idle"
    /\ hostState = "starting"
    /\ playing' = TRUE
    /\ \E total \in TotalTimes \cup {-1} :
         duration' = IF total < 0 THEN 0 ELSE int(total)
    /\ hostState' = "playing"
    /\ mpc' = "while"
    /\ out' = <<>>
    /\ UNCHANGED <<segments, sponsorblock_enabled, last_progress_report,
                   position, hostPos, abortRequested, loopReportAt,
                   prevLoopReportAt, loopReportPos, monotone>>
    /\ UNCHANGED pvars

\* FeedsPlayer.onPlayBackStopped
onPlayBackStopped ==
    /\ hostState \in {"playing", "paused"}
    /\ hostState' = "stopped"
    /\ playing' = FALSE
    /\ \E time_ok \in {TRUE, FALSE}, api_ok \in ApiOk :
         out' = _report_progress("onPlayBackStopped", time_ok, api_ok)
    /\ UNCHANGED <<segments, sponsorblock_enabled, last_progress_report,
                   duration, mpc, position, hostPos, abortRequested,
                   loopReportAt, prevLoopReportAt, loopReportPos, monotone>>
    /\ UNCHANGED pvars

\* FeedsPlayer.onPlayBackPaused
onPlayBackPaused ==
    /\ hostState = "playing"
    /\ hostState' = "paused"
    /\ \E api_ok \in ApiOk : out' = _report_progress("onPlayBackPaused", TRUE, api_ok)
    /\ monotone' = FALSE
    /\ UNCHANGED <<fvars, mpc, position, hostPos, abortRequested,
                   loopReportAt, prevLoopReportAt,
                   loopReportPos>>
    /\ UNCHANGED pvars

\* FeedsPlayer.onPlayBackEnded
onPlayBackEnded ==
    /\ hostState = "playing"
    /\ hostState' = "ended"
    /\ playing' = FALSE
    /\ \E api_ok \in ApiOk :
         out' = IF EndedGuard(duration)
                THEN <<[op |-> "mark_watched", by |-> "onPlayBackEnded",
                        ok |-> api_ok]>>
                ELSE <<>>
    /\ UNCHANGED <<segments, sponsorblock_enabled, last_progress_report,
                   duration, mpc, position, hostPos, abortRequested,
                   loopReportAt, prevLoopReportAt, loopReportPos, monotone>>
    /\ UNCHANGED pvars

\* while self.playing and not xbmc.Monitor().abortRequested()
monitor_while ==
    /\ mpc = "while"
    /\ mpc' = IF playing /\ ~abortRequested THEN "sample" ELSE "exited"
    /\ out' = <<>>
    /\ UNCHANGED <<fvars, position, hostState, hostPos, abortRequested,
                   loopReportAt, prevLoopReportAt, loopReportPos, monotone>>
    /\ UNCHANGED pvars

\* position = self.getTime(); except RuntimeError: break
monitor_sample ==
    /\ mpc = "sample"
    /\ \E time_ok \in HostCallOk :
         IF time_ok
         THEN position' = hostPos /\ mpc' = "skip"
         ELSE mpc' = "exited" /\ UNCHANGED position
    /\ out' = <<>>
    /\ UNCHANGED <<fvars, hostState, hostPos, abortRequested,
                   loopReportAt, prevLoopReportAt, loopReportPos, monotone>>
    /\ UNCHANGED pvars

\* the SponsorBlock block of the loop body
monitor_skip ==
    /\ mpc = "skip"
    /\ LET k == IF SkipActive(sponsorblock_enabled, segments)
                THEN FirstMatch(position, segments) ELSE 0
       IN  IF k > 0
           THEN \E seek_ok \in HostCallOk :
                  IF seek_ok
                  THEN /\ hostPos' = SegGet(segments[k], "end_time")
                       /\ out' = <<[op |-> "seekTime", by |-> "_start_monitor",
                                     to |-> SegGet(segments[k], "end_time")],
                                   [op |-> "notification",
                                    by |-> "_start_monitor"]>>
                       /\ mpc' = "report"
                  ELSE /\ mpc' = "exited"
                       /\ out' = <<[op |-> "seekTime", by |-> "_start_monitor",
                                     to |-> SegGet(segments[k], "end_time")]>>
                       /\ UNCHANGED hostPos
           ELSE /\ mpc' = "report"
                /\ out' = <<>>
                /\ UNCHANGED hostPos
    /\ UNCHANGED <<fvars, position, hostState, abortRequested,
                   loopReportAt, prevLoopReportAt, loopReportPos, monotone>>
    /\ UNCHANGED pvars

\* the progress block of the loop body
monitor_report ==
    /\ mpc = "report"
    /\ IF ReportDue(int(position), last_progress_report)
       THEN /\ \E time_ok \in HostCallOk, api_ok \in ApiOk :
                 /\ out' = _report_progress("_start_monitor", time_ok, api_ok)
                 /\ IF _report_progress("_start_monitor", time_ok, api_ok) /= <<>>
                    THEN /\ loopReportAt' = int(position)
                         /\ prevLoopReportAt' = loopReportAt
                         /\ loopReportPos' = int(hostPos)
                    ELSE UNCHANGED <<loopReportAt, prevLoopReportAt,
                   loopReportPos>>
            /\ last_progress_report' = int(position)
       ELSE /\ out' = <<>>
            /\ UNCHANGED <<last_progress_report, loopReportAt, prevLoopReportAt,
                   loopReportPos>>
    /\ mpc' = "watched"
    /\ UNCHANGED <<segments, sponsorblock_enabled, duration, playing, position,
                   hostState, hostPos, abortRequested, monotone>>
    /\ UNCHANGED pvars

\* the 90% block without its inner try/except: a failed mark leaves the loop
monitor_watched_raise ==
    /\ mpc = "watched"
    /\ \E api_ok \in ApiOk :
         /\ out' = IF WatchedDue(duration, position)
                   THEN <<[op |-> "mark_watched", by |-> "_start_monitor",
                           ok |-> api_ok]>>
                   ELSE <<>>
         /\ mpc' = IF WatchedDue(duration, position) /\ ~api_ok
                   THEN "exited" ELSE "sleep"
    /\ position' = 0
    /\ UNCHANGED <<fvars, hostState, hostPos, abortRequested,
                   loopReportAt, prevLoopReportAt, loopReportPos, monotone>>
    /\ UNCHANGED pvars

\* the 90% block of the loop body; nothing reads the sample after it, so
\* the local is cleared here
monitor_watched ==
    /\ mpc = "watched"
    /\ \E api_ok \in ApiOk :
         out' = IF WatchedDue(duration, position)
                THEN <<[op |-> "mark_watched", by |-> "_start_monitor",
                        ok |-> api_ok]>>
                ELSE <<>>
    /\ mpc' = "sleep"
    /\ position' = 0
    /\ UNCHANGED <<fvars, hostState, hostPos, abortRequested,
                   loopReportAt, prevLoopReportAt, loopReportPos, monotone>>
    /\ UNCHANGED pvars

\* xbmc.sleep(1000)
monitor_sleep ==
    /\ mpc = "sleep"
    /\ mpc' = "while"
    /\ out' = <<>>
    /\ UNCHANGED <<fvars, position, hostState, hostPos, abortRequested,
                   loopReportAt, prevLoopReportAt, loopReportPos, monotone>>
    /\ UNCHANGED pvars

---------------------------------------------------------------------------
(* The host: playback, seeks, resume, shutdown *)

\* while the loop sleeps the position moves: playback advances it, a user
\* seek sets it anywhere
host_move ==
    /\ mpc = "sleep"
    /\ \/ /\ hostState = "playing"
          /\ \E p \in Positions : p > hostPos /\ hostPos' = p
          /\ UNCHANGED monotone
       \/ /\ hostState \in {"playing", "paused"}
          /\ \E p \in Positions : p < hostPos /\ hostPos' = p
          /\ monotone' = FALSE
    /\ out' = <<>>
    /\ UNCHANGED <<fvars, mpc, position, hostState, abortRequested,
                   loopReportAt, prevLoopReportAt,
                   loopReportPos>>
    /\ UNCHANGED pvars

\* the host resumes a paused playback; FeedsPlayer overrides no callback for it
host_resume ==
    /\ hostState = "paused"
    /\ hostState' = "playing"
    /\ out' = <<>>
    /\ UNCHANGED <<fvars, mpc, position, hostPos, abortRequested,
                   loopReportAt, prevLoopReportAt, loopReportPos, monotone>>
    /\ UNCHANGED pvars

\* Kodi shuts down; the loop reads the flag only after its sleep
host_abort ==
    /\ mpc = "sleep"
    /\ ~abortRequested
    /\ abortRequested' = TRUE
    /\ out' = <<>>
    /\ UNCHANGED <<fvars, mpc, position, hostState, hostPos,
                   loopReportAt, prevLoopReportAt, loopReportPos, monotone>>
    /\ UNCHANGED pvars

---------------------------------------------------------------------------
(* The monitor's specification *)

\* a play attempt that started playback with the given segments
PlayStarted(segs, enabled) ==
    /\ pc = "done"
    /\ default_quality = QUALITY_BEST
    /\ sponsorblock_setting = enabled
    /\ available = <<"720p">>
    /\ cached = <<"720p">>
    /\ selected_quality = "720p"
    /\ i = 0
    /\ pDialog = "none"
    /\ progress = 0
    /\ stream_url = get_stream_url(VideoId, StreamQuality("720p"))
    /\ outcome = "playing"
    /\ n_get_video_qualities = 1
    /\ n_start_download = 0
    /\ download_quality = None
    /\ n_get_segments = IF enabled THEN 1 ELSE 0
    /\ errorNotices = 0
    /\ noQualNotices = 0
    /\ configNotices = 0
    /\ options = <<>>
    /\ lastPollHit = FALSE
    /\ exhausted = FALSE
    /\ userCancelled = FALSE
    /\ failedCall = "none"

\* the state FeedsPlayer.__init__ leaves, as play_video calls it
MonInit ==
    /\ \E enabled \in BOOLEAN :
         \E segs \in (IF enabled THEN SegmentLists ELSE {<<>>}) :
            /\ PlayStarted(segs, enabled)
            /\ segments = segs
            /\ sponsorblock_enabled = enabled
    /\ last_progress_report = 0
    /\ duration = 0
    /\ playing = FALSE
    /\ mpc = "idle"
    /\ position = 0
    /\ hostState = "starting"
    /\ hostPos = 0
    /\ abortRequested = FALSE
    /\ out = <<>>
    /\ loopReportAt = -1
    /\ prevLoopReportAt = -1
    /\ loopReportPos = -1
    /\ monotone = TRUE

MonNext ==
    \/ onAVStarted
    \/ onPlayBackStopped
    \/ onPlayBackPaused
    \/ onPlayBackEnded
    \/ monitor_while
    \/ monitor_sample
    \/ monitor_skip
    \/ monitor_report
    \/ monitor_watched
    \/ monitor_sleep
    \/ host_move
    \/ host_resume
    \/ host_abort

SpecMon == MonInit /\ [][MonNext]_vars

\* the statements of _start_monitor
LoopStep ==
    \/ monitor_while
    \/ monitor_sample
    \/ monitor_skip
    \/ monitor_report
    \/ monitor_watched
    \/ monitor_sleep

\* the loop is sequential code: each of its statements returns (a remote call
\* within its 30 s timeout, the sleep after 1 s), so the loop keeps stepping
SpecMonFair == SpecMon /\ WF_vars(LoopStep)

---------------------------------------------------------------------------
(* Claims about play_video, checked under Spec *)

\* rendition polls made by the preparation wait (the first qualities request
\* is the negotiation's)
Polls == IF n_get_video_qualities = 0 THEN 0 ELSE n_get_video_qualities - 1

\* playback was started: a locator was resolved or a FeedsPlayer built
PlaybackStarted == stream_url /= NoUrl \/ mpc /= "none"

\* C1: when the poll loop uses up its 120 ticks without a poll showing the
\* selected rendition cached, the attempt fails with a notice to the user
\* and playback is never started.
C1_TimeoutFails ==
    exhausted =>
        /\ ~PlaybackStarted
        /\ pc = "done" => (outcome = "failed" /\ errorNotices = 1)

\* the wait's counters: one poll per completed tick, at most MaxTicks
C2_WaitInv ==
    /\ i \in 0..MaxTicks
    /\ Polls <= MaxTicks
    /\ pc = "poll" => (i < MaxTicks /\ Polls = i /\ ~lastPollHit)
    /\ lastPollHit => (pc /= "poll" /\ Polls = i + 1)
    /\ exhausted => (i = MaxTicks /\ Polls = MaxTicks /\ ~lastPollHit)
    /\ pDialog = "closed" => (lastPollHit \/ exhausted)

\* a tick leaves the loop or advances the index; no poll follows the wait's end
C2_WaitStep ==
    /\ pc = "poll" => (pc' /= "poll" \/ i' = i + 1)
    /\ (lastPollHit \/ exhausted) =>
            n_get_video_qualities' = n_get_video_qualities

\* C2: the preparation wait terminates.  It makes at most 120 polls, one per
\* completed tick; every tick leaves the loop or advances the tick index; it
\* makes no poll after the first one that shows the rendition cached; it
\* leaves the loop normally only on such a poll or after exactly 120 polls.
C2_WaitTerminates == []C2_WaitInv /\ [][C2_WaitStep]_vars

C2_Witness == exhausted /\ pc = "segments" /\ Polls = MaxTicks

\* what holds once the user has cancelled
C3_CancelInv ==
    userCancelled =>
        /\ outcome = "cancelled"
        /\ pc = "done"
        /\ errorNotices = 0
        /\ noQualNotices = 0
        /\ n_get_segments = 0
        /\ ~PlaybackStarted
        /\ pDialog = "open" => (Polls = i /\ n_start_download = 1)
        /\ pDialog /= "open" => (Polls = 0 /\ n_start_download = 0)

\* nothing follows a cancellation, and the step that sees it calls no API
C3_CancelStep ==
    /\ ~userCancelled
    /\ userCancelled' =>
            /\ n_get_video_qualities' = n_get_video_qualities
            /\ n_start_download' = n_start_download
            /\ n_get_segments' = n_get_segments

\* C3: a user cancellation (the progress dialog reports cancelled at tick k,
\* or the quality choice is declined) ends the attempt silently: the step
\* that sees it makes no API call, no step follows it, no notice is shown
\* and playback is not started.
C3_CancelSilent == []C3_CancelInv /\ [][C3_CancelStep]_vars

C3_Witness == userCancelled /\ pDialog = "open" /\ i = 3 /\ Polls = 3

\* C4: with preference Best the selected rendition is the last element of
\* `available` whenever `available` is non-empty, whatever `cached` holds,
\* and the last element of `cached` only when `available` is empty.
C4_Best ==
    (default_quality = QUALITY_BEST /\ selected_quality /= None) =>
        /\ available /= <<>> => selected_quality = available[Len(available)]
        /\ available = <<>> =>
             (cached /= <<>> /\ selected_quality = cached[Len(cached)])

C4_Witness ==
    /\ default_quality = QUALITY_BEST
    /\ available /= <<>>
    /\ cached /= <<>>
    /\ cached[Len(cached)] /= available[Len(available)]
    /\ selected_quality = available[Len(available)]

\* the label of a target preference, written out
C5_Label == IF default_quality = 720 THEN "720p" ELSE "1080p"

---------------------------------------------------------------------------
(* Claims about FeedsPlayer, checked under SpecMon *)

\* the calls of one kind that one method made, among the calls o
Calls(o, op, by) == {k \in DOMAIN o : o[k].op = op /\ o[k].by = by}

\* the steps of the sampling loop and the callbacks, told by what they change
SkipStep == mpc = "skip" /\ mpc' /= "skip"
ReportStep == mpc = "report" /\ mpc' = "watched"
WatchedStep == mpc = "watched" /\ mpc' = "sleep"
PauseStep == hostState = "playing" /\ hostState' = "paused"
EndedStep == hostState /= "ended" /\ hostState' = "ended"

\* the segments whose half-open interval holds the sampled position
C6_Hits ==
    {k \in DOMAIN segments :
        segments[k].start_time <= position /\ position < segments[k].end_time}

C6_First == CHOOSE k \in C6_Hits : \A j \in C6_Hits : k <= j

C6_Common ==
    /\ Cardinality(Calls(out', "seekTime", "_start_monitor")) <= 1
    /\ Cardinality(Calls(out', "notification", "_start_monitor")) <= 1
    /\ (sponsorblock_enabled /\ C6_Hits /= {}) =>
            /\ out' /= <<>>
            /\ out'[1].op = "seekTime"
            /\ out'[1].to = segments[C6_First].end_time
    /\ (~sponsorblock_enabled \/ segments = <<>>) => out' = <<>>

\* C6 as stated: ... and the tick issues no seek when the sampled position
\* equals a segment's end or lies in no segment.
C6_SkipAsStated ==
    [][SkipStep =>
        /\ C6_Common
        /\ ((\E k \in DOMAIN segments : position = segments[k].end_time)
             \/ C6_Hits = {}) => out' = <<>>]_vars

\* C6, amended: on a tick with sponsor-skipping enabled the monitor seeks to
\* the end of the first segment in list order with start <= position < end,
\* with at most one seek and one notice; it issues no seek when the position
\* lies in no segment (a position equal to a segment's end is outside that
\* segment, and is skipped only when another segment holds it); with
\* skipping disabled or no segments it never seeks.
C6_Skip ==
    [][SkipStep =>
        /\ C6_Common
        /\ C6_Hits = {} => out' = <<>>]_vars

C6_Witness ==
    /\ mpc = "report"
    /\ Calls(out, "seekTime", "_start_monitor") /= {}
    /\ Calls(out, "notification", "_start_monitor") /= {}
    /\ Len(segments) = 2
    /\ position = segments[1].end_time
    /\ hostPos = segments[2].end_time

\* the last two reports of the loop
C7_Inv ==
    prevLoopReportAt /= -1 => loopReportAt - prevLoopReportAt >= report_interval

\* a tick that reports
C7_Step ==
    (ReportStep /\ Calls(out', "report_progress", "_start_monitor") /= {}) =>
        /\ int(position) - last_progress_report >= report_interval
        /\ loopReportAt' = int(position)

\* C7: two consecutive progress reports of the sampling loop are made at
\* sampled whole positions (int(position)) at least 30 apart, and a tick
\* reports only when the sampled whole position is at least 30 past the
\* last-reported marker.  (It holds of every playback, monotone and unpaused
\* or not.)
C7_Spacing == []C7_Inv /\ [][C7_Step]_vars

C7_Witness ==
    /\ monotone
    /\ hostState = "playing"
    /\ prevLoopReportAt >= report_interval
    /\ loopReportAt >= prevLoopReportAt + report_interval
    /\ Calls(out, "report_progress", "_start_monitor") /= {}

\* the one report a pause makes
C8_OneReport ==
    /\ Len(out') = 1
    /\ out'[1].op = "report_progress"
    /\ out'[1].by = "onPlayBackPaused"
    /\ out'[1].progress = int(hostPos)
    /\ out'[1].duration = duration

\* C8 as stated: every pause at position P makes exactly one progress report
\* with position P, whatever the session's state, a duration of 0 included.
C8_PauseAsStated == [][PauseStep => C8_OneReport]_vars

\* C8, amended: every pause at position P in a session whose total duration
\* is known (> 0) makes exactly one progress report with position P, however
\* close P is to the last-reported marker; with a duration of 0 the pause
\* makes no report.
C8_Pause ==
    [][PauseStep => IF duration > 0 THEN C8_OneReport ELSE out' = <<>>]_vars

C8_Witness ==
    /\ hostState = "paused"
    /\ Len(out) = 1
    /\ out[1].op = "report_progress"
    /\ out[1].by = "onPlayBackPaused"
    /\ out[1].progress = int(hostPos)
    /\ hostPos > 0
    /\ last_progress_report > 0
    /\ int(hostPos) - last_progress_report < report_interval

\* a watched mark of the loop is the 90% block's
C9_Inv ==
    Calls(out, "mark_watched", "_start_monitor") /= {} =>
        (duration > 0 /\ mpc = "sleep" /\ Len(out) = 1)

\* the 90% block marks exactly above the threshold
C9_Step ==
    WatchedStep =>
        (Calls(out', "mark_watched", "_start_monitor") /= {}
            <=> (duration > 0 /\ 10 * position > 9 * duration * SubUnits))

\* C9: a tick of the sampling loop issues a watched mark if and only if the
\* duration is > 0 and the sampled position is strictly above 90% of it; no
\* other step of the loop issues one, and none is issued when duration is 0.
C9_Watched == []C9_Inv /\ [][C9_Step]_vars

C9_Witness ==
    /\ mpc = "sleep"
    /\ Calls(out, "mark_watched", "_start_monitor") /= {}
    /\ duration > 0
    /\ 10 * hostPos > 9 * duration * SubUnits

\* `playing` stays cleared after the end of the stream
C10_Inv == hostState = "ended" => ~playing

\* what onPlayBackEnded calls, and what the loop's test does after it
C10_Step ==
    /\ EndedStep =>
          IF duration > 0
          THEN /\ Len(out') = 1
               /\ out'[1].op = "mark_watched"
               /\ out'[1].by = "onPlayBackEnded"
          ELSE out' = <<>>
    /\ (hostState = "ended" /\ mpc = "while") => mpc' \in {"while", "exited"}

AnyCalls(o, op) == {k \in DOMAIN o : o[k].op = op}

StopStep == hostState \in {"playing", "paused"} /\ hostState' = "stopped"

\* no watched mark as part of the stop; no progress report by a step taken
\* in a terminal state
C11_Step ==
    /\ StopStep => (AnyCalls(out', "mark_watched") = {})
    /\ hostState \in {"stopped", "ended"}
          => (AnyCalls(out', "report_progress") = {})

\* C11: once the session is Ended or Stopped no step issues a progress
\* report (the final report of the stop belongs to the step that enters
\* Stopped), whatever the interleaving of the callbacks with the loop's tick;
\* the stop itself issues no watched mark.
C11_FinalReport == [][C11_Step]_vars

\* the stop issues exactly one progress report
C11_StopOne == StopStep => (Cardinality(AnyCalls(out', "report_progress")) = 1)

C11_StopReports == [][C11_StopOne]_vars

\* the remote calls among the calls o that failed
FailedCalls(o) ==
    {k \in DOMAIN o : o[k].op \in {"report_progress", "mark_watched"} /\ ~o[k].ok}

\* where each failed remote call leaves the loop and the session
C12_Step ==
    \A k \in FailedCalls(out') :
        /\ AnyCalls(out', "notification") = {}
        /\ errorNotices' = errorNotices
        /\ playing' = (playing /\ out'[k].by \in {"_start_monitor", "onPlayBackPaused"})
        /\ CASE out'[k].by = "_start_monitor" ->
                  /\ hostState' = hostState
                  /\ mpc' = IF out'[k].op = "report_progress"
                            THEN "watched" ELSE "sleep"
             [] out'[k].by = "onPlayBackPaused" ->
                  hostState' = "paused" /\ mpc' = mpc
             [] out'[k].by = "onPlayBackStopped" ->
                  hostState' = "stopped" /\ mpc' = mpc
             [] out'[k].by = "onPlayBackEnded" ->
                  hostState' = "ended" /\ mpc' = mpc

\* C12: a failed progress report or watched mark, made by the loop or by a
\* pause/stop/end callback, is absorbed: the loop goes on to its next
\* statement (never leaves), the callback's effect on the session is the one
\* it has when the call succeeds, and no notice is shown.
C12_Absorbed == [][C12_Step]_vars

C12_Witness ==
    /\ FailedCalls(out) /= {}
    /\ out[1].by = "_start_monitor"
    /\ out[1].op = "report_progress"
    /\ mpc = "watched"
    /\ hostState = "playing"
    /\ playing

---------------------------------------------------------------------------
(* Claims about the API calls of play_video, checked under Spec *)

\* C13: get_segments never fails its caller: whatever way the underlying
\* request fails (no connection, non-2xx status, a body that is not JSON) it
\* returns the empty list, so once the segments were asked for the play
\* attempt goes on to start playback.
C13_SegmentsNeverFail ==
    n_get_segments > 0 =>
        /\ failedCall /= "get_segments"
        /\ outcome = "playing"
        /\ PlaybackStarted

\* C14: when the first qualities response carries two empty lists the
\* attempt ends as "no qualities available" whatever the quality preference:
\* that one notice and no other, no download request, no poll, no segments
\* request, no playback; and the attempt ends that way only then.
C14_NoQualities ==
    /\ outcome = "noqual" =>
          /\ available = <<>> /\ cached = <<>>
          /\ pc = "done"
          /\ noQualNotices = 1
          /\ errorNotices = 0
          /\ n_start_download = 0
          /\ Polls = 0
          /\ n_get_segments = 0
          /\ selected_quality = None
          /\ options = <<>>
          /\ ~PlaybackStarted
    /\ (n_get_video_qualities > 0 /\ failedCall = "none"
          /\ available = <<>> /\ cached = <<>>) => outcome = "noqual"
    /\ outcome /= "noqual" => noQualNotices = 0

C14_Witness ==
    /\ outcome = "noqual"
    /\ default_quality = QUALITY_ASK
    /\ noQualNotices = 1

\* C15: when the first qualities request, the download request or a poll
\* fails, the attempt ends there with exactly one error notice, playback is
\* not started, and no further API call is made.
C15_FailureNotice ==
    failedCall \in {"get_video_qualities", "start_download"} =>
        /\ pc = "done"
        /\ errorNotices = 1
        /\ noQualNotices = 0
        /\ n_get_segments = 0
        /\ ~PlaybackStarted

---------------------------------------------------------------------------
(* Further claims about FeedsPlayer, checked under SpecMon *)

\* the calls among the calls o that the sampling loop made
LoopCalls(o) == {k \in DOMAIN o : o[k].by = "_start_monitor"}

\* a step taken while the session is paused makes no call from the loop
C16_Step == hostState = "paused" => (LoopCalls(out') = {})

\* C16: the sampling loop acts only while the session is Playing: while it
\* is Paused no tick seeks past a segment, sends a throttled progress report
\* or sends the early watched mark.
C16_IdleWhilePaused == [][C16_Step]_vars

\* the marker moves only with a report of the loop that was sent and
\* accepted, and then to the sampled position
C17_Step ==
    last_progress_report' /= last_progress_report =>
        /\ \E k \in LoopCalls(out') :
              out'[k].op = "report_progress" /\ out'[k].ok
        /\ last_progress_report' = int(position)

\* C17: last_progress_report is advanced to the sampled position only on a
\* tick whose progress report was actually sent and succeeded; when the
\* report fails or is not sent the marker keeps its value.
C17_MarkerOnSuccess == [][C17_Step]_vars

---------------------------------------------------------------------------
(* Further claims about play_video, checked under Spec *)

\* C18: the stream locator handed to the host is the locator of the
\* negotiated rendition: its quality parameter is the selected rendition.
C18_LocatorQuality ==
    stream_url /= NoUrl =>
        /\ stream_url.video_id = VideoId
        /\ stream_url.quality = selected_quality

\* C19: a download is requested if and only if the selected rendition is
\* not in the `cached` list of the first qualities response; it is then
\* requested exactly once, for the selected rendition, before the first
\* poll; for a rendition already cached there is no download request and
\* no poll.
C19_Download ==
    /\ n_start_download <= 1
    /\ n_start_download = 1 =>
          /\ selected_quality /= None
          /\ download_quality = selected_quality
          /\ \A k \in DOMAIN cached : cached[k] /= selected_quality
    /\ (selected_quality /= None /\ pc /= "prepare") =>
          (n_start_download = 1 <=>
              \A k \in DOMAIN cached : cached[k] /= selected_quality)
    /\ Polls > 0 => n_start_download = 1
    /\ (\E k \in DOMAIN cached : cached[k] = selected_quality) =>
          (n_start_download = 0 /\ Polls = 0 /\ pDialog = "none")

\* a download was requested for a rendition that other cached renditions
\* did not make unnecessary, and polls followed
C19_Witness ==
    /\ n_start_download = 1
    /\ Polls >= 2
    /\ cached /= <<>>
    /\ download_quality = selected_quality

---------------------------------------------------------------------------
(* Further claims about FeedsPlayer, checked under SpecMon *)

\* a report of the loop carries a position not below the one its previous
\* report carried
C20_Step ==
    (ReportStep /\ loopReportPos /= -1) =>
        \A k \in LoopCalls(out') :
            out'[k].op = "report_progress" => out'[k].progress >= loopReportPos

\* C20: within one session the positions carried by the successive progress
\* reports of the sampling loop never decrease, whatever positions the host
\* produces (backward seeks and segment skips included).
C20_LoopReportsOrdered == [][C20_Step]_vars

---------------------------------------------------------------------------
(* The Ask preference, checked under Spec *)

\* the renditions of the two lists of the first qualities response
BothLists == {available[k] : k \in DOMAIN available}
                 \cup {cached[k] : k \in DOMAIN cached}

\* C21: with the Ask preference, whenever one of the two lists is non-empty
\* the options offered are non-empty and cover the renditions of both lists
\* (one that is only in `cached` is offered too), an option is annotated as
\* cached exactly when its rendition is in `cached`, and the rendition
\* selected is one of the offered options.
C21_AskOptions ==
    /\ pc = "select" =>
          /\ options /= <<>>
          /\ \A q \in BothLists : \E k \in DOMAIN options : options[k].value = q
          /\ \A k \in DOMAIN options :
                options[k].label =
                    IF \E j \in DOMAIN cached : cached[j] = options[k].value
                    THEN options[k].value \o " (cached)"
                    ELSE options[k].value
    /\ (default_quality = QUALITY_ASK /\ selected_quality /= None) =>
          \E k \in DOMAIN options : options[k].value = selected_quality

=============================================================================
